---- MODULE Spec2Model ----
(***************************************************************************)
(* Model of the task-service web client: the transport client (api.ts)     *)
(* and the view-state controller (the App component).                       *)
(*                                                                         *)
(* Texts typed by the operator are sequences of one-character strings, so  *)
(* that trim() and JSON.parse() are computed, not assumed.  Messages and   *)
(* enumeration values are strings.  The Russian message literals of the    *)
(* source are transliterated to ASCII.                                     *)
(***************************************************************************)
EXTENDS Integers, Sequences, FiniteSets, TLC

VARIABLES ui, calls, acts, ev

vars == <<ui, calls, acts, ev>>

(***************************************************************************)
(* Bounds of the exploration.                                              *)
(***************************************************************************)
\* transport calls issued in one behaviour (the mount's reload included)
MaxCalls == 3
\* changes of an input field in one behaviour
MaxEdits == 3
\* transport calls and changes of an input field together, in a behaviour
\* that issues more than MaxCalls calls
MaxSteps == 5

(***************************************************************************)
(* Option values: null / undefined is the empty tuple, a value v is <<v>>. *)
(***************************************************************************)
None == <<>>

Some(v) == <<v>>

(***************************************************************************)
(* types.ts                                                                 *)
(***************************************************************************)
SiteType == {"marketplace", "news", "ecommerce", "classifieds", "other"}

TaskStatus == {"created", "running", "paused", "completed", "failed"}

\* A Task; the controller reads only id and status, the other fields are
\* passed through untouched.
Task(id, st) == [id |-> id, status |-> st]

(***************************************************************************)
(* String.prototype.trim                                                    *)
(***************************************************************************)
WhiteSpace == {" "}

RECURSIVE TrimStart(_)
TrimStart(t) ==
    IF t # <<>> /\ Head(t) \in WhiteSpace THEN TrimStart(Tail(t)) ELSE t

RECURSIVE TrimEnd(_)
TrimEnd(t) ==
    IF t # <<>> /\ t[Len(t)] \in WhiteSpace
    THEN TrimEnd(SubSeq(t, 1, Len(t) - 1))
    ELSE t

Trim(t) == TrimEnd(TrimStart(t))

(***************************************************************************)
(* JSON.parse, on the fragment of JSON the model's texts are written in:   *)
(* objects, strings without escapes, unsigned integers, blanks.            *)
(* A JSON value is [t, n, s, m]: type tag, number, string, members.        *)
(***************************************************************************)
JsonDigits == {"0", "1", "2", "3", "4", "5", "6", "7", "8", "9"}

DigitValue(c) ==
    CASE c = "0" -> 0 [] c = "1" -> 1 [] c = "2" -> 2 [] c = "3" -> 3
      [] c = "4" -> 4 [] c = "5" -> 5 [] c = "6" -> 6 [] c = "7" -> 7
      [] c = "8" -> 8 [] c = "9" -> 9

JsonNumber(n) == [t |-> "number", n |-> n, s |-> "", m |-> <<>>]

JsonString(s) == [t |-> "string", n |-> 0, s |-> s, m |-> <<>>]

JsonObject(m) == [t |-> "object", n |-> 0, s |-> "", m |-> m]

EmptyObject == JsonObject(<<>>)

ParseFail == [ok |-> FALSE, next |-> 0, val |-> EmptyObject]

ParseOk(next, val) == [ok |-> TRUE, next |-> next, val |-> val]

RECURSIVE SkipWs(_, _)
SkipWs(s, i) ==
    IF i <= Len(s) /\ s[i] \in WhiteSpace THEN SkipWs(s, i + 1) ELSE i

RECURSIVE ParseString(_, _, _)
ParseString(s, i, acc) ==
    IF i > Len(s) THEN ParseFail
    ELSE IF s[i] = "\"" THEN ParseOk(i + 1, JsonString(acc))
    ELSE ParseString(s, i + 1, acc \o s[i])

RECURSIVE ParseDigits(_, _, _)
ParseDigits(s, i, acc) ==
    IF i <= Len(s) /\ s[i] \in JsonDigits
    THEN ParseDigits(s, i + 1, 10 * acc + DigitValue(s[i]))
    ELSE ParseOk(i, JsonNumber(acc))

ParseNumber(s, i) ==
    IF s[i] = "0" /\ i + 1 <= Len(s) /\ s[i + 1] \in JsonDigits
    THEN ParseFail
    ELSE ParseDigits(s, i, 0)

RECURSIVE ParseValue(_, _)
RECURSIVE ParseMembers(_, _, _)
ParseValue(s, i) ==
    LET j == SkipWs(s, i) IN
    IF j > Len(s) THEN ParseFail
    ELSE IF s[j] = "{" THEN
        LET k == SkipWs(s, j + 1) IN
        IF k <= Len(s) /\ s[k] = "}"
        THEN ParseOk(k + 1, EmptyObject)
        ELSE ParseMembers(s, k, <<>>)
    ELSE IF s[j] = "\"" THEN ParseString(s, j + 1, "")
    ELSE IF s[j] \in JsonDigits THEN ParseNumber(s, j)
    ELSE ParseFail

ParseMembers(s, i, m) ==
    IF i > Len(s) \/ s[i] # "\"" THEN ParseFail
    ELSE
        LET key == ParseString(s, i + 1, "") IN
        IF ~key.ok THEN ParseFail
        ELSE
            LET c == SkipWs(s, key.next) IN
            IF c > Len(s) \/ s[c] # ":" THEN ParseFail
            ELSE
                LET v == ParseValue(s, c + 1) IN
                IF ~v.ok THEN ParseFail
                ELSE
                    LET e  == SkipWs(s, v.next)
                        m2 == Append(m, <<key.val.s, v.val>>)
                    IN
                    IF e > Len(s) THEN ParseFail
                    ELSE IF s[e] = "}" THEN ParseOk(e + 1, JsonObject(m2))
                    ELSE IF s[e] = "," THEN ParseMembers(s, SkipWs(s, e + 1), m2)
                    ELSE ParseFail

\* JSON.parse(text): ok = FALSE stands for the SyntaxError it throws.
JSONParse(s) ==
    LET r == ParseValue(s, 1) IN
    IF r.ok /\ SkipWs(s, r.next) > Len(s) THEN r ELSE ParseFail

(***************************************************************************)
(* api.ts: the transport client                                             *)
(***************************************************************************)
\* What fetch() settles with: a response (status and body), or a rejection
\* when the backend cannot be reached.
NoBody == [json |-> FALSE, detail |-> None, items |-> <<>>]

JsonBody(detail, items) == [json |-> TRUE, detail |-> detail, items |-> items]

Response(status, body) == [kind |-> "response", status |-> status, body |-> body]

NetworkError == [kind |-> "network_error", status |-> 0, body |-> NoBody]

\* Messages of the errors the runtime itself raises (browser-defined texts).
FetchFailedMessage == "Failed to fetch"

BodySyntaxMessage == "Unexpected token in JSON"

UndefinedItemsMessage == "Cannot read properties of undefined"

\* Response.ok
ResOk(status) == status >= 200 /\ status <= 299

Throw(message) == [ok |-> FALSE, undef |-> FALSE, value |-> NoBody, message |-> Some(message)]

Return(value) == [ok |-> TRUE, undef |-> FALSE, value |-> value, message |-> None]

ReturnUndefined == [ok |-> TRUE, undef |-> TRUE, value |-> NoBody, message |-> None]

\* Variant of req: a detail field is used whenever the body has one, empty
\* or not.
reqAnyDetail(o) ==
    IF o.kind = "network_error" THEN Throw(FetchFailedMessage)
    ELSE IF ~ResOk(o.status) THEN
        IF o.body.json /\ o.body.detail # None
        THEN Throw(o.body.detail[1])
        ELSE Throw("HTTP " \o ToString(o.status))
    ELSE IF o.status = 204 THEN ReturnUndefined
    ELSE IF o.body.json THEN Return(o.body)
    ELSE Throw(BodySyntaxMessage)

\* req(): the result of one call, given what fetch settled with.
req(o) ==
    IF o.kind = "network_error" THEN Throw(FetchFailedMessage)
    ELSE IF ~ResOk(o.status) THEN
        LET fallback == "HTTP " \o ToString(o.status) IN
        IF o.body.json /\ o.body.detail # None /\ o.body.detail[1] # ""
        THEN Throw(o.body.detail[1])
        ELSE Throw(fallback)
    ELSE IF o.status = 204 THEN ReturnUndefined
    ELSE IF o.body.json THEN Return(o.body)
    ELSE Throw(BodySyntaxMessage)

\* The URLSearchParams of api.listTasks: the <<name, value>> pairs, in the
\* order they are set.
SetParam(sp, present, key, value) ==
    IF present THEN Append(sp, <<key, value>>) ELSE sp

listTasks(params) ==
    LET sp1 == SetParam(<<>>, params.limit # None, "limit",
                        IF params.limit # None THEN ToString(params.limit[1]) ELSE "")
        sp2 == SetParam(sp1, params.offset # None, "offset",
                        IF params.offset # None THEN ToString(params.offset[1]) ELSE "")
        sp3 == SetParam(sp2, params.status # None /\ params.status # Some(""), "status",
                        IF params.status # None THEN params.status[1] ELSE "")
        sp4 == SetParam(sp3, params.site_type # None /\ params.site_type # Some(""), "site_type",
                        IF params.site_type # None THEN params.site_type[1] ELSE "")
        sp5 == SetParam(sp4, params.q # None /\ params.q # Some(<<>>), "q",
                        IF params.q # None THEN params.q[1] ELSE <<>>)
    IN [op |-> "listTasks", arg |-> sp5]

createTask(payload) == [op |-> "createTask", arg |-> payload]

deleteTask(id) == [op |-> "deleteTask", arg |-> id]

updateStatus(id, status) == [op |-> "updateStatus", arg |-> [id |-> id, status |-> status]]

Mutating == {"createTask", "deleteTask", "updateStatus"}

(***************************************************************************)
(* The App component: its state and derived values                          *)
(***************************************************************************)
\* '{"depth": 1}'
DefaultCriteriaText == <<"{", "\"", "d", "e", "p", "t", "h", "\"", ":", " ", "1", "}">>

\* The useState initial values.
InitialState ==
    [items |-> <<>>, loading |-> FALSE, err |-> None,
     q |-> <<>>, siteType |-> "", status |-> "",
     name |-> <<>>, url |-> <<>>, createSiteType |-> "other",
     criteriaText |-> DefaultCriteriaText]

\* x || undefined
OrUndefined(x, empty) == IF x = empty THEN None ELSE Some(x)

\* Variant of filters: the free-text query is not trimmed.
filtersUntrimmed(s) ==
    [limit     |-> Some(50),
     offset    |-> Some(0),
     q         |-> OrUndefined(s.q, <<>>),
     site_type |-> OrUndefined(s.siteType, ""),
     status    |-> OrUndefined(s.status, "")]

\* The useMemo value `filters` of a render with state s.
filters(s) ==
    [limit     |-> Some(50),
     offset    |-> Some(0),
     q         |-> OrUndefined(Trim(s.q), <<>>),
     site_type |-> OrUndefined(s.siteType, ""),
     status    |-> OrUndefined(s.status, "")]

\* The dependency list of the reload effect.
EffectDeps(s) == <<filters(s).q, filters(s).site_type, filters(s).status>>

\* Messages set by the controller itself (transliterated).
NameRequired == "Vvedite nazvanie zadachi"

UrlRequired == "Vvedite URL"

CriteriaInvalid == "Kriterii dolzhny byt validnym JSON"

LoadFallback == "Oshibka zagruzki"

CreateFallback == "Oshibka sozdaniya"

DeleteFallback == "Oshibka udaleniya"

StatusFallback == "Oshibka obnovleniya statusa"

\* e?.message ?? fallback
MessageOf(r, fallback) == IF r.message = None THEN fallback ELSE r.message[1]

(***************************************************************************)
(* Inputs of the exploration: what the operator types and selects, and     *)
(* what the backend answers.                                                *)
(***************************************************************************)
QInputs == {<<>>, <<" ">>, <<" ", "a", " ">>}

SiteTypeInputs == {"", "news"}

StatusInputs == {"", "running"}

NameInputs == {<<>>, <<" ">>, <<" ", "n", " ">>}

UrlInputs == {<<>>, <<" ">>, <<"u">>}

CreateSiteTypeInputs == {"other", "news"}

\* "{not json"
NotJsonText == <<"{", "n", "o", "t", " ", "j", "s", "o", "n">>

CriteriaInputs == {DefaultCriteriaText, <<>>, <<" ">>, <<"{", "}">>, NotJsonText}

NewStatusInputs == {"running"}

ItemLists == {<<>>, <<Task("t1", "created")>>}

TaskIds == {"t1"}

ErrorStatuses == {500}

ErrorBodies ==
    {NoBody, JsonBody(None, <<>>), JsonBody(Some(""), <<>>),
     JsonBody(Some("not found"), <<>>)}

ErrorOutcomes ==
    {Response(st, b) : st \in ErrorStatuses, b \in ErrorBodies}
        \cup {NetworkError}

ListOutcomes == {Response(200, JsonBody(None, l)) : l \in ItemLists} \cup ErrorOutcomes

CreateOutcomes == {Response(201, JsonBody(None, <<>>))} \cup ErrorOutcomes

DeleteOutcomes == {Response(204, NoBody)} \cup ErrorOutcomes

StatusOutcomes == {Response(200, JsonBody(None, <<>>))} \cup ErrorOutcomes

(***************************************************************************)
(* The controller.  A world w is [ui, calls, last, outcome]: the component *)
(* state, the log of the transport calls issued so far, the most recently  *)
(* started controller action and the failure message of that action, if it *)
(* has failed.  An action is named by the index of its first call (0: it   *)
(* has issued none).  A call of the log is                                  *)
(*   op, arg   the request                                                  *)
(*   by        the handler awaiting it                                      *)
(*   act       the action it belongs to                                     *)
(*   filters   the `filters` of the render whose closure issued it          *)
(*   state     "pending", "ok" or "failed"                                  *)
(* ev is "declined" right after a declined delete confirmation, "step"     *)
(* after any other step.                                                    *)
(***************************************************************************)
NewCall(request, by, act, flt) ==
    [op |-> request.op, arg |-> request.arg, by |-> by, act |-> act,
     filters |-> flt, state |-> "pending"]

Issue(w, request, by, act, flt) ==
    [w EXCEPT !.calls = Append(@, NewCall(request, by, act, flt))]

\* Call i settled with a result.
Succeeded(w, i) == [w EXCEPT !.calls[i].state = "ok"]

\* Call i settled with a failure carrying message m.
Failed(w, i, m) ==
    [w EXCEPT !.calls[i].state = "failed",
              !.outcome = IF w.calls[i].act = w.last THEN Some(m) ELSE @]

\* A new controller action starts: its first call, if any, is the next one.
Start(w) == [w EXCEPT !.last = Len(w.calls) + 1, !.outcome = None]

\* The action started ends without a call, with message m.
Local(w, m) == [w EXCEPT !.last = 0, !.outcome = Some(m)]

setLoading(w, v) == [w EXCEPT !.ui.loading = v]

setErr(w, v) == [w EXCEPT !.ui.err = v]

setItems(w, v) == [w EXCEPT !.ui.items = v]

\* load(), up to its await: flt is the `filters` of the closure calling it.
load(w, flt, by, act) ==
    Issue(setErr(setLoading(w, TRUE), None), listTasks(flt), by, act, flt)

\* Variant of loadResume: loading is cleared after a success only.
loadResumeNoFinally(w, i, r) ==
    IF r.ok /\ ~r.undef
    THEN setLoading(Succeeded(setItems(w, r.value.items), i), FALSE)
    ELSE LET m == IF r.ok THEN UndefinedItemsMessage
                  ELSE MessageOf(r, LoadFallback)
         IN Failed(setErr(w, Some(m)), i, m)

\* load(), from the settling of its listTasks call i with r to its end.
loadResume(w, i, r) ==
    LET w1 == IF r.ok /\ ~r.undef
              THEN Succeeded(setItems(w, r.value.items), i)
              ELSE LET m == IF r.ok THEN UndefinedItemsMessage
                            ELSE MessageOf(r, LoadFallback)
                   IN Failed(setErr(w, Some(m)), i, m)
    IN setLoading(w1, FALSE)

\* Variant of useEffect: the dependencies are the filter inputs as typed.
useEffectOnInputs(old, w) ==
    IF <<w.ui.q, w.ui.siteType, w.ui.status>> # <<old.q, old.siteType, old.status>>
    THEN load(Start(w), filters(w.ui), "effect", Len(w.calls) + 1)
    ELSE w

\* The reload effect, after a render that replaced state old by w.ui.
useEffect(old, w) ==
    IF EffectDeps(w.ui) # EffectDeps(old)
    THEN load(Start(w), filters(w.ui), "effect", Len(w.calls) + 1)
    ELSE w

\* Variant of validate: the criteria text is not checked.
validateNoCriteria(s) ==
    IF Trim(s.name) = <<>> THEN Some(NameRequired)
    ELSE IF Trim(s.url) = <<>> THEN Some(UrlRequired)
    ELSE None

\* The local validation of onCreate(): the message it returns with, if any.
validate(s) ==
    IF Trim(s.name) = <<>> THEN Some(NameRequired)
    ELSE IF Trim(s.url) = <<>> THEN Some(UrlRequired)
    ELSE IF Trim(s.criteriaText) # <<>> /\ ~JSONParse(s.criteriaText).ok
    THEN Some(CriteriaInvalid)
    ELSE None

\* Variant of CreatePayload: blank criteria text is sent as the default
\* criteria.
CreatePayloadBlankAsDefault(s) ==
    [name      |-> Trim(s.name),
     url       |-> Trim(s.url),
     site_type |-> s.createSiteType,
     criteria  |-> IF Trim(s.criteriaText) # <<>>
                   THEN JSONParse(s.criteriaText).val
                   ELSE JSONParse(DefaultCriteriaText).val]

\* The payload onCreate() sends for state s.
CreatePayload(s) ==
    [name      |-> Trim(s.name),
     url       |-> Trim(s.url),
     site_type |-> s.createSiteType,
     criteria  |-> IF Trim(s.criteriaText) # <<>>
                   THEN JSONParse(s.criteriaText).val
                   ELSE EmptyObject]

\* onCreate(), up to its return or its await.
onCreateStart(w) ==
    LET w0 == setErr(Start(w), None)
        v  == validate(w.ui)
    IN IF v # None
       THEN setErr(Local(w0, v[1]), v)
       ELSE Issue(setLoading(w0, TRUE), createTask(CreatePayload(w.ui)),
                  "onCreate", Len(w.calls) + 1, filters(w.ui))

\* Variant of onCreateResume: the form is cleared on failure too.
onCreateResumeClearing(w, i, r) ==
    LET w1 == [w EXCEPT !.ui.name = <<>>, !.ui.url = <<>>,
                        !.ui.criteriaText = DefaultCriteriaText]
    IN IF r.ok
       THEN load(Succeeded(w1, i), w.calls[i].filters, "onCreate", w.calls[i].act)
       ELSE LET m == MessageOf(r, CreateFallback)
            IN setLoading(Failed(setErr(w1, Some(m)), i, m), FALSE)

\* Variant of onCreateResume: a successful create reloads the list twice.
onCreateResumeReloadingTwice(w, i, r) ==
    IF r.ok
    THEN LET w1 == [w EXCEPT !.ui.name = <<>>, !.ui.url = <<>>,
                             !.ui.criteriaText = DefaultCriteriaText]
             w2 == load(Succeeded(w1, i), w.calls[i].filters, "onCreate", w.calls[i].act)
         IN load(w2, w.calls[i].filters, "onCreate", w.calls[i].act)
    ELSE LET m == MessageOf(r, CreateFallback)
         IN setLoading(Failed(setErr(w, Some(m)), i, m), FALSE)

\* onCreate(), from the settling of its createTask call i with r, up to its
\* end or to the await inside load().
onCreateResume(w, i, r) ==
    IF r.ok
    THEN LET w1 == [w EXCEPT !.ui.name = <<>>, !.ui.url = <<>>,
                             !.ui.criteriaText = DefaultCriteriaText]
         IN load(Succeeded(w1, i), w.calls[i].filters, "onCreate", w.calls[i].act)
    ELSE LET m == MessageOf(r, CreateFallback)
         IN setLoading(Failed(setErr(w, Some(m)), i, m), FALSE)

\* onDelete(id) after a confirmed prompt, up to its await.
onDeleteStart(w, id) ==
    Issue(setErr(setLoading(Start(w), TRUE), None), deleteTask(id),
          "onDelete", Len(w.calls) + 1, filters(w.ui))

\* Variant of onDeleteResume: the deleted row is also removed from the list
\* on the spot.
onDeleteResumeRemoving(w, i, r) ==
    IF r.ok
    THEN LET rest == SelectSeq(w.ui.items, LAMBDA t : t.id # w.calls[i].arg)
         IN load(Succeeded(setItems(w, rest), i), w.calls[i].filters,
                 "onDelete", w.calls[i].act)
    ELSE LET m == MessageOf(r, DeleteFallback)
         IN setLoading(Failed(setErr(w, Some(m)), i, m), FALSE)

\* Variant of onDeleteResume: the list is reloaded after a failure too.
onDeleteResumeReloading(w, i, r) ==
    IF r.ok
    THEN load(Succeeded(w, i), w.calls[i].filters, "onDelete", w.calls[i].act)
    ELSE LET m == MessageOf(r, DeleteFallback)
         IN load(Failed(setErr(w, Some(m)), i, m), w.calls[i].filters,
                 "onDelete", w.calls[i].act)

\* onDelete(id), from the settling of its deleteTask call i with r.
onDeleteResume(w, i, r) ==
    IF r.ok
    THEN load(Succeeded(w, i), w.calls[i].filters, "onDelete", w.calls[i].act)
    ELSE LET m == MessageOf(r, DeleteFallback)
         IN setLoading(Failed(setErr(w, Some(m)), i, m), FALSE)

\* onStatus(id, newStatus), up to its await.
onStatusStart(w, id, newStatus) ==
    Issue(setErr(setLoading(Start(w), TRUE), None), updateStatus(id, newStatus),
          "onStatus", Len(w.calls) + 1, filters(w.ui))

\* Variant of onStatusResume: a failure resets the create form's name.
onStatusResumeClearingName(w, i, r) ==
    IF r.ok
    THEN load(Succeeded(w, i), w.calls[i].filters, "onStatus", w.calls[i].act)
    ELSE LET m == MessageOf(r, StatusFallback)
         IN setLoading(Failed(setErr([w EXCEPT !.ui.name = <<>>], Some(m)), i, m), FALSE)

\* onStatus(id, newStatus), from the settling of its updateStatus call i.
onStatusResume(w, i, r) ==
    IF r.ok
    THEN load(Succeeded(w, i), w.calls[i].filters, "onStatus", w.calls[i].act)
    ELSE LET m == MessageOf(r, StatusFallback)
         IN setLoading(Failed(setErr(w, Some(m)), i, m), FALSE)

\* The finally of the handler that awaited load(), if one did.
AwaitingHandlerFinally(w, by) ==
    IF by \in {"onCreate", "onDelete", "onStatus"} THEN setLoading(w, FALSE) ELSE w

(***************************************************************************)
(* The state machine                                                        *)
(***************************************************************************)
World == [ui |-> ui, calls |-> calls, last |-> acts.last, outcome |-> acts.outcome]

Pending == {i \in 1..Len(calls) : calls[i].state = "pending"}

\* Calls issued, plus the reloads that the pending mutating calls will issue.
Budget(cs) ==
    Len(cs) + Cardinality({i \in 1..Len(cs) :
                              cs[i].state = "pending" /\ cs[i].op \in Mutating})

\* A step: the handler code took World to w; the component re-renders and
\* the effect runs.
Commit(w, edits) ==
    LET w2 == useEffect(ui, w) IN
    /\ ui' = w2.ui
    /\ calls' = w2.calls
    /\ acts' = [last |-> w2.last, outcome |-> w2.outcome, edits |-> acts.edits + edits]
    /\ ev' = "step"

\* A step the operator triggers: taken only while the calls it issues, and
\* will issue, fit the bounds.
Trigger(w, edits) ==
    /\ LET b == Budget(useEffect(ui, w).calls) IN
          b <= MaxCalls \/ b + acts.edits + edits <= MaxSteps
    /\ Commit(w, edits)

\* onChange of an input: field := v
Edit(field, v) ==
    /\ acts.edits < MaxEdits
    /\ ui[field] # v
    /\ Trigger([World EXCEPT !.ui[field] = v], 1)

setQ(v) == Edit("q", v)

setSiteType(v) == Edit("siteType", v)

setStatus(v) == Edit("status", v)

setName(v) == Edit("name", v)

setUrl(v) == Edit("url", v)

setCreateSiteType(v) == Edit("createSiteType", v)

setCriteriaText(v) == Edit("criteriaText", v)

\* The refresh button: onClick={load}, disabled while loading.
onRefresh ==
    /\ ~ui.loading
    /\ Trigger(load(Start(World), filters(ui), "refresh", Len(calls) + 1), 0)

\* The create button, disabled while loading.
onCreate ==
    /\ ~ui.loading
    /\ Trigger(onCreateStart(World), 0)

\* Variant of onDelete: the answer to the prompt is not looked at.
onDeleteUnconfirmed(id, confirmed) ==
    /\ ~ui.loading
    /\ \E k \in 1..Len(ui.items) : ui.items[k].id = id
    /\ Trigger(onDeleteStart(World, id), 0)

\* A row's delete button, disabled while loading; confirmed is the answer to
\* confirm().
onDelete(id, confirmed) ==
    /\ ~ui.loading
    /\ \E k \in 1..Len(ui.items) : ui.items[k].id = id
    /\ IF ~confirmed
       THEN /\ UNCHANGED <<ui, calls, acts>>
            /\ ev' = "declined"
       ELSE Trigger(onDeleteStart(World, id), 0)

\* onChange of a row's status selector.
onStatus(id, newStatus) ==
    /\ \E k \in 1..Len(ui.items) :
          ui.items[k].id = id /\ ui.items[k].status # newStatus
    /\ Trigger(onStatusStart(World, id, newStatus), 0)

\* fetch() settles call i with o.
createTaskSettled(i, o) ==
    /\ i \in Pending
    /\ calls[i].op = "createTask"
    /\ Commit(onCreateResume(World, i, req(o)), 0)

deleteTaskSettled(i, o) ==
    /\ i \in Pending
    /\ calls[i].op = "deleteTask"
    /\ Commit(onDeleteResume(World, i, req(o)), 0)

updateStatusSettled(i, o) ==
    /\ i \in Pending
    /\ calls[i].op = "updateStatus"
    /\ Commit(onStatusResume(World, i, req(o)), 0)

\* load() runs to its end, and so does the handler that awaited load().
listTasksSettled(i, o) ==
    /\ i \in Pending
    /\ calls[i].op = "listTasks"
    /\ Commit(AwaitingHandlerFinally(loadResume(World, i, req(o)), calls[i].by), 0)

\* After construction: the first render has run the effect, so the mount's
\* reload is in flight.
Init ==
    LET w == load([ui |-> InitialState, calls |-> <<>>, last |-> 1, outcome |-> None],
                  filters(InitialState), "effect", 1)
    IN /\ ui = w.ui
       /\ calls = w.calls
       /\ acts = [last |-> 1, outcome |-> None, edits |-> 0]
       /\ ev = "step"

Next ==
    \/ \E v \in QInputs : setQ(v)
    \/ \E v \in SiteTypeInputs : setSiteType(v)
    \/ \E v \in StatusInputs : setStatus(v)
    \/ \E v \in NameInputs : setName(v)
    \/ \E v \in UrlInputs : setUrl(v)
    \/ \E v \in CreateSiteTypeInputs : setCreateSiteType(v)
    \/ \E v \in CriteriaInputs : setCriteriaText(v)
    \/ onRefresh
    \/ onCreate
    \/ \E id \in TaskIds, c \in BOOLEAN : onDelete(id, c)
    \/ \E id \in TaskIds, st \in NewStatusInputs : onStatus(id, st)
    \/ \E i \in 1..Len(calls), o \in ListOutcomes : listTasksSettled(i, o)
    \/ \E i \in 1..Len(calls), o \in CreateOutcomes : createTaskSettled(i, o)
    \/ \E i \in 1..Len(calls), o \in DeleteOutcomes : deleteTaskSettled(i, o)
    \/ \E i \in 1..Len(calls), o \in StatusOutcomes : updateStatusSettled(i, o)

Spec == Init /\ [][Next]_vars

\* Some transport call settles.
Settle ==
    \/ \E i \in 1..Len(calls), o \in ListOutcomes : listTasksSettled(i, o)
    \/ \E i \in 1..Len(calls), o \in CreateOutcomes : createTaskSettled(i, o)
    \/ \E i \in 1..Len(calls), o \in DeleteOutcomes : deleteTaskSettled(i, o)
    \/ \E i \in 1..Len(calls), o \in StatusOutcomes : updateStatusSettled(i, o)

\* Weak fairness of Settle, with its enabling condition written out: a call
\* can settle exactly when one is pending.
SettleFairness == []<>(Pending = {}) \/ []<><<Settle>>_vars

\* The behaviours in which every issued transport call eventually settles.
FairSpec == Spec /\ SettleFairness

(***************************************************************************)
(* Properties                                                               *)
(***************************************************************************)
IsList(i) == calls[i].op = "listTasks"

\* Call i settles in this step, successfully / with a failure.
SettlesOk(i) == calls[i].state = "pending" /\ calls'[i].state = "ok"

\* Call i of operation op settles in this step.
Settles(i, op) ==
    calls[i].op = op /\ calls[i].state = "pending" /\ calls'[i].state # "pending"

\* The message the claims expect a failed call to carry.
CarriedMessage(o) ==
    IF o.kind = "network_error" THEN FetchFailedMessage
    ELSE IF o.body.json /\ o.body.detail \notin {None, Some("")} THEN o.body.detail[1]
    ELSE "HTTP " \o ToString(o.status)

FormFields(s) == <<s.name, s.url, s.createSiteType, s.criteriaText>>

\* C1: last-issued reload wins: when a reload issued by a filter change (or
\* by the mount) settles successfully after a reload issued later than it
\* has already settled successfully, the displayed list is not overwritten.
C1_StaleReloadNeverOverwrites ==
    [][\A i \in 1..Len(calls) :
          (/\ IsList(i) /\ calls[i].by = "effect" /\ SettlesOk(i)
           /\ \E j \in (i + 1)..Len(calls) :
                 IsList(j) /\ calls[j].by = "effect" /\ calls[j].state = "ok")
          => ui'.items = ui.items]_vars

\* C2: in the query of every listTasks call, q is present only with a value
\* that is non-empty and trimmed, site_type and status only with a
\* non-empty value.
C2_NoEmptyFilterParam ==
    \A i \in 1..Len(calls) :
        IsList(i) =>
            \A k \in 1..Len(calls[i].arg) :
                LET key == calls[i].arg[k][1]
                    val == calls[i].arg[k][2]
                IN /\ key = "q" => (val # <<>> /\ Trim(val) = val)
                   /\ key \in {"site_type", "status"} => val # ""

HasParam(i, key) == \E k \in 1..Len(calls[i].arg) : calls[i].arg[k][1] = key

\* Witness of C2: a reload was issued while the free-text input was
\* whitespace-only and no site type or status was selected, and its query
\* carries none of the three parameters.
C2_Witness ==
    \E i \in 1..Len(calls) :
        /\ IsList(i)
        /\ calls[i].by = "refresh"
        /\ ui.q = <<" ">> /\ ui.siteType = "" /\ ui.status = ""
        /\ ~HasParam(i, "q") /\ ~HasParam(i, "site_type") /\ ~HasParam(i, "status")
        /\ HasParam(i, "limit")

\* The message of the first failing field of the create form, name before
\* URL before criteria.
FirstInvalid(s) ==
    IF Trim(s.name) = <<>> THEN Some(NameRequired)
    ELSE IF Trim(s.url) = <<>> THEN Some(UrlRequired)
    ELSE IF Trim(s.criteriaText) # <<>> /\ ~JSONParse(s.criteriaText).ok
    THEN Some(CriteriaInvalid)
    ELSE None

\* C3: a create whose local validation fails issues no transport call, sets
\* the error to the first failing field's message and leaves the form
\* fields, the task list and the loading flag unchanged.
C3_InvalidCreateIsLocal ==
    [][(onCreate /\ FirstInvalid(ui) # None)
          => /\ calls' = calls
             /\ ui'.err = FirstInvalid(ui)
             /\ FormFields(ui') = FormFields(ui)
             /\ ui'.items = ui.items
             /\ ui'.loading = ui.loading]_vars

\* Witness of C3: the most recent action was a create that failed on its
\* criteria text, with name and URL filled in.
C3_Witness ==
    /\ acts.last = 0
    /\ acts.outcome = Some(CriteriaInvalid)
    /\ ui.err = Some(CriteriaInvalid)
    /\ ui.criteriaText = NotJsonText
    /\ Trim(ui.name) # <<>> /\ Trim(ui.url) # <<>>

\* C4: the step in which a createTask call succeeds resets name, URL and
\* criteria text and issues exactly one call, a listTasks; and no other step
\* issues a call on behalf of onCreate's reload.
C4_CreateSuccessResetsAndReloadsOnce ==
    [][/\ \A i \in 1..Len(calls) :
            (calls[i].op = "createTask" /\ SettlesOk(i))
            => /\ ui'.name = <<>>
               /\ ui'.url = <<>>
               /\ ui'.criteriaText = DefaultCriteriaText
               /\ Len(calls') = Len(calls) + 1
               /\ calls'[Len(calls')].op = "listTasks"
               /\ calls'[Len(calls')].act = i
       /\ \A j \in (Len(calls) + 1)..Len(calls') :
            (calls'[j].op = "listTasks" /\ calls'[j].by = "onCreate")
            => \E i \in 1..Len(calls) :
                  calls[i].op = "createTask" /\ SettlesOk(i) /\ calls'[j].act = i]_vars

\* Witness of C4: a createTask call has succeeded, the form is reset and the
\* reload it issued is the call right after it.
C4_Witness ==
    \E i \in 1..Len(calls) :
        /\ calls[i].op = "createTask" /\ calls[i].state = "ok"
        /\ calls[i].arg.name = <<"n">>
        /\ ui.name = <<>> /\ ui.url = <<>> /\ ui.criteriaText = DefaultCriteriaText
        /\ Len(calls) = i + 1 /\ IsList(i + 1) /\ calls[i + 1].act = i

\* C5: the step in which a deleteTask or updateStatus call is rejected
\* issues no call, leaves the task list unchanged and sets the error to the
\* message the failure carries.
C5_RejectedMutationKeepsList ==
    [][\A i \in 1..Len(calls) : \A o \in ErrorOutcomes :
          (\/ Settles(i, "deleteTask") /\ deleteTaskSettled(i, o)
           \/ Settles(i, "updateStatus") /\ updateStatusSettled(i, o))
          => /\ calls'[i].state = "failed"
             /\ Len(calls') = Len(calls)
             /\ ui'.items = ui.items
             /\ ui'.err = Some(CarriedMessage(o))]_vars

\* Witness of C5: a deleteTask call was rejected with "not found", and the
\* task is still listed.
C5_Witness ==
    \E i \in 1..Len(calls) :
        /\ calls[i].op = "deleteTask" /\ calls[i].state = "failed"
        /\ Len(calls) = i
        /\ ui.err = Some("not found")
        /\ \E k \in 1..Len(ui.items) : ui.items[k].id = calls[i].arg

\* C6: a declined delete confirmation issues no call and changes no
\* controller state.
C6_DeclinedDeleteChangesNothing ==
    [][(\E id \in TaskIds : onDelete(id, FALSE)) => UNCHANGED <<ui, calls>>]_vars

\* Witness of C6: a delete confirmation has just been declined.
C6_Witness == ev = "declined" /\ ui.items # <<>>

\* C7: while a transport request is unresolved, the loading flag is true.
C7_LoadingWhilePending == Pending # {} => ui.loading

\* C8: once all requests have resolved, the error shown is the outcome of
\* the most recently started action: none if it succeeded, its failure
\* message if it failed.
C8_ErrorIsLatestOutcome == Pending = {} => ui.err = acts.outcome

IsHttpError(o) == o.kind = "response" /\ ~(o.status \in 200..299)

\* C9: for each of the four operations, a response with a non-success
\* status makes the call fail, with the body's detail when the body is JSON
\* with a non-empty detail and with "HTTP <status>" otherwise.
C9_HttpErrorMessage ==
    [][\A i \in 1..Len(calls) : \A o \in ErrorOutcomes :
          (/\ IsHttpError(o)
           /\ \/ Settles(i, "listTasks") /\ listTasksSettled(i, o)
              \/ Settles(i, "createTask") /\ createTaskSettled(i, o)
              \/ Settles(i, "deleteTask") /\ deleteTaskSettled(i, o)
              \/ Settles(i, "updateStatus") /\ updateStatusSettled(i, o))
          => /\ calls'[i].state = "failed"
             /\ ui'.err = Some(IF o.body.json /\ o.body.detail # None
                                     /\ o.body.detail[1] # ""
                               THEN o.body.detail[1]
                               ELSE "HTTP " \o ToString(o.status))]_vars

\* Witness of C9: an updateStatus call has failed with the fallback message
\* of status 500.
C9_Witness ==
    \E i \in 1..Len(calls) :
        /\ calls[i].op = "updateStatus" /\ calls[i].state = "failed"
        /\ ui.err = Some("HTTP 500")

\* C10: the step in which a createTask call is rejected leaves name, URL,
\* site type and criteria text as they are, issues no call and sets the
\* error to the failure's message.
C10_RejectedCreateKeepsForm ==
    [][\A i \in 1..Len(calls) : \A o \in ErrorOutcomes :
          (Settles(i, "createTask") /\ createTaskSettled(i, o))
          => /\ calls'[i].state = "failed"
             /\ FormFields(ui') = FormFields(ui)
             /\ Len(calls') = Len(calls)
             /\ ui'.err = Some(CarriedMessage(o))]_vars

\* Witness of C10: a createTask call was rejected, the form still holds the
\* values sent.
C10_Witness ==
    \E i \in 1..Len(calls) :
        /\ calls[i].op = "createTask" /\ calls[i].state = "failed"
        /\ Trim(ui.name) = calls[i].arg.name /\ ui.name = <<" ", "n", " ">>
        /\ Trim(ui.url) = calls[i].arg.url /\ ui.url # <<>>
        /\ ui.err = Some("not found")

\* "{}"
EmptyObjectText == <<"{", "}">>

\* The createTask payload the create button sends from state s.
SentPayload(s) ==
    LET w == onCreateStart([World EXCEPT !.ui = s]) IN w.calls[Len(w.calls)].arg

\* C11: a create with blank criteria text (empty or blanks only) sends the
\* payload a create with criteria text "{}" sends: the criteria is the empty
\* object, name and URL are sent trimmed.
C11_BlankCriteriaIsEmptyObject ==
    [][(onCreate /\ FirstInvalid(ui) = None /\ Trim(ui.criteriaText) = <<>>)
          => /\ Len(calls') = Len(calls) + 1
             /\ calls'[Len(calls')].op = "createTask"
             /\ calls'[Len(calls')].arg
                  = SentPayload([ui EXCEPT !.criteriaText = EmptyObjectText])
             /\ calls'[Len(calls')].arg.criteria = EmptyObject
             /\ calls'[Len(calls')].arg.name = Trim(ui.name)
             /\ calls'[Len(calls')].arg.url = Trim(ui.url)]_vars

\* Witness of C11: a createTask call is in flight that was sent from a form
\* whose criteria text is a single blank and whose name has blanks around it.
C11_Witness ==
    \E i \in 1..Len(calls) :
        /\ calls[i].op = "createTask" /\ calls[i].state = "pending"
        /\ ui.criteriaText = <<" ">>
        /\ ui.name = <<" ", "n", " ">>
        /\ calls[i].arg.criteria = EmptyObject
        /\ calls[i].arg.name = <<"n">>

\* C12: the reload issued in the step in which a createTask, deleteTask or
\* updateStatus call succeeds queries with the effective filter of that
\* moment, whatever the filter was when the action was triggered.
C12_ChainedReloadUsesCurrentFilter ==
    [][\A i \in 1..Len(calls) :
          (calls[i].op \in Mutating /\ SettlesOk(i))
          => /\ Len(calls') = Len(calls) + 1
             /\ calls'[Len(calls')].op = "listTasks"
             /\ calls'[Len(calls')].arg = listTasks(filters(ui')).arg]_vars

\* C13: the step in which a reload succeeds and leaves no request in flight
\* displays the result of a listTasks call that was issued with the
\* effective filter current in the state reached.
C13_DisplayedListMatchesFilter ==
    [][\A i \in 1..Len(calls) :
          (IsList(i) /\ SettlesOk(i) /\ \A j \in 1..Len(calls') : calls'[j].state # "pending")
          => calls[i].arg = listTasks(filters(ui')).arg]_vars

\* The outcome is a response that listTasks returns a page from.
IsPage(o) == o.kind = "response" /\ o.status \in 200..299 /\ o.body.json

\* C14: the task list changes only in a step in which a listTasks call
\* succeeds; such a step sets it to the items of the response, and a step in
\* which a listTasks call fails leaves it as it is.
C14_ListChangesOnlyByReload ==
    [][/\ ui'.items # ui.items
            => \E i \in 1..Len(calls) : IsList(i) /\ SettlesOk(i)
       /\ \A i \in 1..Len(calls) : \A o \in ListOutcomes :
            (Settles(i, "listTasks") /\ listTasksSettled(i, o))
            => IF IsPage(o)
               THEN calls'[i].state = "ok" /\ ui'.items = o.body.items
               ELSE calls'[i].state = "failed" /\ ui'.items = ui.items]_vars

\* Witness of C14: a deleteTask call has succeeded, its reload is still in
\* flight, and the deleted task is still in the list.
C14_Witness ==
    \E i \in 1..Len(calls) :
        /\ calls[i].op = "deleteTask" /\ calls[i].state = "ok"
        /\ \E j \in (i + 1)..Len(calls) :
              IsList(j) /\ calls[j].act = i /\ calls[j].state = "pending"
        /\ \E k \in 1..Len(ui.items) : ui.items[k].id = calls[i].arg

FilterInputs(s) == <<s.q, s.siteType, s.status>>

\* C15: the step in which a listTasks, deleteTask, updateStatus or
\* createTask call fails leaves the create-form fields (name, URL, site
\* type, criteria text) and the filter inputs (q, site type, status) as they
\* are.
C15_FailureKeepsFormAndFilter ==
    [][\A i \in 1..Len(calls) : \A o \in ErrorOutcomes :
          (\/ Settles(i, "listTasks") /\ listTasksSettled(i, o)
           \/ Settles(i, "deleteTask") /\ deleteTaskSettled(i, o)
           \/ Settles(i, "updateStatus") /\ updateStatusSettled(i, o)
           \/ Settles(i, "createTask") /\ createTaskSettled(i, o))
          => /\ calls'[i].state = "failed"
             /\ FormFields(ui') = FormFields(ui)
             /\ FilterInputs(ui') = FilterInputs(ui)]_vars

\* Witness of C15: an updateStatus call has failed while the create form
\* held a name and the search box a query, and both are still there.
C15_Witness ==
    \E i \in 1..Len(calls) :
        /\ calls[i].op = "updateStatus" /\ calls[i].state = "failed"
        /\ Len(calls) = i
        /\ ui.name = <<" ", "n", " ">>
        /\ ui.q = <<" ">>
        /\ ui.err = Some(FetchFailedMessage)

\* A step in which a transport call settles: no operator trigger.
Settling ==
    \E i \in 1..Len(calls) : calls[i].state = "pending" /\ calls'[i].state # "pending"

\* C16: in every state with no request in flight the loading flag is false;
\* and when every issued call eventually settles and the operator's triggers
\* come to an end, the loading flag is eventually false for good.
C16_LoadingEventuallyFalse ==
    /\ [](Pending = {} => ~ui.loading)
    /\ <>[][Settling]_vars => <>[](Pending = {} /\ ~ui.loading)

\* Witness of C16: two reloads overlapped with a third call issued after
\* them, all have settled, and the loading flag is false.
C16_Witness ==
    /\ Pending = {}
    /\ ~ui.loading
    /\ Len(calls) >= 3
    /\ IsList(1) /\ IsList(2) /\ calls[2].by = "effect"
    /\ calls[1].state = "ok" /\ calls[2].state = "failed"

\* The effective filter of state s: trimmed q, site type, status.
EffectiveFilter(s) == <<Trim(s.q), s.siteType, s.status>>

\* The value a query carries for key, absent if it carries none.
ParamValue(arg, key, absent) ==
    IF \E k \in 1..Len(arg) : arg[k][1] = key
    THEN arg[CHOOSE k \in 1..Len(arg) : arg[k][1] = key][2]
    ELSE absent

\* The effective filter a listTasks query carries.
CarriedFilter(arg) ==
    <<ParamValue(arg, "q", <<>>), ParamValue(arg, "site_type", ""),
      ParamValue(arg, "status", "")>>

\* C17: a step that changes the effective filter issues exactly one call, a
\* listTasks carrying the new effective filter; a step that changes a filter
\* input and leaves the effective filter as it is issues no call.
C17_FilterChangeReloadsOnce ==
    [][/\ EffectiveFilter(ui') # EffectiveFilter(ui)
            => /\ Len(calls') = Len(calls) + 1
               /\ calls'[Len(calls')].op = "listTasks"
               /\ CarriedFilter(calls'[Len(calls')].arg) = EffectiveFilter(ui')
       /\ (FilterInputs(ui') # FilterInputs(ui)
             /\ EffectiveFilter(ui') = EffectiveFilter(ui))
            => calls' = calls]_vars

\* Witness of C17: the site type was selected and a blank typed into the
\* search box; one reload followed the mount's, carrying the site type.
C17_Witness ==
    /\ ui.siteType = "news" /\ ui.q = <<" ">> /\ ui.status = ""
    /\ Len(calls) = 2
    /\ IsList(2) /\ calls[2].by = "effect"
    /\ CarriedFilter(calls[2].arg) = <<<<>>, "news", "">>

\* C18: at most one mutating transport call (createTask, deleteTask or
\* updateStatus) is in flight at any time.
C18_OneMutatingCallInFlight ==
    Cardinality({i \in Pending : calls[i].op \in Mutating}) <= 1

====
